---- MODULE Spec2Model ----
(***************************************************************************)
(* WorkerManager of src/libs/http-server/index.js: a bounded pool of       *)
(* worker threads fed from a FIFO task queue, each admitted task racing    *)
(* its worker's first event against a per-task timer.                      *)
(*                                                                         *)
(* The main thread is a single event loop: every action below is one       *)
(* macrotask (an addTask call, a worker event, a timer callback) together  *)
(* with the promise reactions (microtasks) it triggers, which Node runs to *)
(* completion before the next macrotask.                                   *)
(***************************************************************************)
EXTENDS Integers, Sequences, FiniteSets, TLC

\* ---- bounds of the model ----
MaxTasks == 3            \* addTask calls in one behaviour
MaxWorkersBound == 2     \* maxWorkers ranges over 0..MaxWorkersBound
MaxNow == 1              \* Date.now() is followed up to this millisecond

HttpCodes == {200}
AppErrors == {"TypeError"}
ExitCodes == {0, 1}

VARIABLES
    maxWorkers,   \* WorkerManager.maxWorkers, fixed after construction
    currWorker,   \* WorkerManager.currWorker
    taskQueue,    \* WorkerManager.taskQueue: ids of the queued entries
    tasks,        \* one record per addTask call, indexed by call order
    admitOrder,   \* history: ids in the order runNext shifted them
    now           \* Date.now()

vars == <<maxWorkers, currWorker, taskQueue, tasks, admitOrder, now>>

NoValue == [kind |-> "none", from |-> 0, isApiResource |-> FALSE, httpCode |-> 0, data |-> ""]

\* the message a worker posts for the task it was spawned with
Response(t, isApi, code) ==
    [kind |-> "result", from |-> t, isApiResource |-> isApi, httpCode |-> code, data |-> "body"]

\* ErrorRequestTimeout.toHttpApiResponse / toHttpResponse
toHttpApiResponse ==
    [kind |-> "timeout", from |-> 0, isApiResource |-> TRUE, httpCode |-> 408, data |-> "json"]

toHttpResponse ==
    [kind |-> "timeout", from |-> 0, isApiResource |-> FALSE, httpCode |-> 408, data |-> "text"]

\* an Error object: its class and its message
Err(class, message) ==
    [kind |-> class, from |-> 0, isApiResource |-> FALSE, httpCode |-> 0, data |-> message]

\* createQueueId: `q${ taskQueue.length }.${ Date.now() }`
createQueueId == <<Len(taskQueue), now>>

\* the entry of addTask with its timer started at submission
NewTaskTimerArmed(isApi) ==
    [ workerData |-> [queueId |-> createQueueId, isApiResource |-> isApi],
      status |-> "queued",
      promise |-> [state |-> "pending", value |-> NoValue],
      settleCalls |-> 0,
      timer |-> "armed",
      worker |-> "unspawned",
      terminateCalls |-> 0,
      race |-> "pending",
      raceValue |-> NoValue,
      chain |-> "pending",
      decs |-> 0,
      reruns |-> 0 ]

\* the entry addTask pushes, with the promise it returns and, once admitted,
\* the timer, worker and race that runNext creates for it
NewTask(isApi) ==
    [ workerData |-> [queueId |-> createQueueId, isApiResource |-> isApi],
      status |-> "queued",          \* "queued" | "admitted"
      promise |-> [state |-> "pending", value |-> NoValue],
      settleCalls |-> 0,            \* calls of the entry's resolve / reject
      timer |-> "unset",            \* "unset" | "armed" | "fired"
      worker |-> "unspawned",       \* "unspawned" | "running" | "exited"
      terminateCalls |-> 0,         \* calls of worker.terminate()
      race |-> "pending",           \* "pending" | "message" | "timeout" | "error" | "exit"
      raceValue |-> NoValue,        \* what Promise.race settled with
      chain |-> "pending",          \* promise returned by .then().catch()
      decs |-> 0,                   \* history: currWorker-- done for this task
      reruns |-> 0 ]                \* history: runNext() calls after its race

\* the mutable scheduler state the handlers work on
State == [currWorker |-> currWorker, taskQueue |-> taskQueue,
          tasks |-> tasks, admitOrder |-> admitOrder]

\* runNext without the capacity test of its gate
runNextNoGate(S) ==
    IF Len(S.taskQueue) < 1
    THEN S
    ELSE LET t == Head(S.taskQueue) IN
         [S EXCEPT !.taskQueue = Tail(@),
                   !.currWorker = @ + 1,
                   !.admitOrder = Append(@, t),
                   !.tasks[t] = [@ EXCEPT !.status = "admitted",
                                          !.timer = "armed",
                                          !.worker = "running"]]

\* runNext taking the newest entry (pop) instead of the oldest (shift)
runNextPop(S) ==
    IF S.currWorker >= maxWorkers \/ Len(S.taskQueue) < 1
    THEN S
    ELSE LET t == S.taskQueue[Len(S.taskQueue)] IN
         [S EXCEPT !.taskQueue = SubSeq(@, 1, Len(@) - 1),
                   !.currWorker = @ + 1,
                   !.admitOrder = Append(@, t),
                   !.tasks[t] = [@ EXCEPT !.status = "admitted",
                                          !.timer = "armed",
                                          !.worker = "running"]]

\* runNext with `>` for `>=` in the capacity test
runNextOffByOne(S) ==
    IF S.currWorker > maxWorkers \/ Len(S.taskQueue) < 1
    THEN S
    ELSE LET t == Head(S.taskQueue) IN
         [S EXCEPT !.taskQueue = Tail(@),
                   !.currWorker = @ + 1,
                   !.admitOrder = Append(@, t),
                   !.tasks[t] = [@ EXCEPT !.status = "admitted",
                                          !.timer = "armed",
                                          !.worker = "running"]]

\* runNext reading the head entry without shifting it out of the queue
runNextPeek(S) ==
    IF S.currWorker >= maxWorkers \/ Len(S.taskQueue) < 1
    THEN S
    ELSE LET t == Head(S.taskQueue) IN
         [S EXCEPT !.currWorker = @ + 1,
                   !.admitOrder = Append(@, t),
                   !.tasks[t] = [@ EXCEPT !.status = "admitted",
                                          !.timer = "armed",
                                          !.worker = "running"]]

\* ---- runNext (lines 47-61): the admission gate ----
runNext(S) ==
    IF S.currWorker >= maxWorkers \/ Len(S.taskQueue) < 1
    THEN S
    ELSE LET t == Head(S.taskQueue) IN
         [S EXCEPT !.taskQueue = Tail(@),
                   !.currWorker = @ + 1,
                   !.admitOrder = Append(@, t),
                   !.tasks[t] = [@ EXCEPT !.status = "admitted",
                                          !.timer = "armed",
                                          !.worker = "running"]]

\* resolve / reject of the promise addTask returned (a settled promise ignores them)
resolve(S, t, v) ==
    [S EXCEPT !.tasks[t].promise =
                  IF @.state = "pending" THEN [state |-> "resolved", value |-> v] ELSE @,
              !.tasks[t].settleCalls = @ + 1]

reject(S, t, e) ==
    [S EXCEPT !.tasks[t].promise =
                  IF @.state = "pending" THEN [state |-> "rejected", value |-> e] ELSE @,
              !.tasks[t].settleCalls = @ + 1]

\* worker.terminate()
terminate(S, t) == [S EXCEPT !.tasks[t].terminateCalls = @ + 1]

\* the release without its this.runNext()
releaseNoRunNext(S, t) ==
    [S EXCEPT !.currWorker = @ - 1, !.tasks[t].decs = @ + 1]

\* this.currWorker--; this.runNext();
release(S, t) ==
    LET S1 == [S EXCEPT !.currWorker = @ - 1, !.tasks[t].decs = @ + 1]
    IN  [runNext(S1) EXCEPT !.tasks[t].reruns = @ + 1]

\* the then-handler terminating the worker as the catch-handler does
raceThenTerminates(S, t, response) ==
    [release(resolve(terminate(S, t), t, response), t) EXCEPT !.tasks[t].chain = "fulfilled"]

\* the then-handler without its closing this.runNext()
raceThenNoRunNext(S, t, response) ==
    LET S1 == resolve(S, t, response) IN
    [S1 EXCEPT !.currWorker = @ - 1, !.tasks[t].decs = @ + 1,
               !.tasks[t].chain = "fulfilled"]

\* .then(response => ...) of the race (lines 72-76)
raceThen(S, t, response) ==
    [release(resolve(S, t, response), t) EXCEPT !.tasks[t].chain = "fulfilled"]

\* the catch-handler rejecting the caller on a timeout too
raceCatchTimeoutRejects(S, t, err) ==
    LET S1 == terminate(S, t) IN
    IF err.kind = "ErrorWorkerExit"
    THEN [S1 EXCEPT !.tasks[t].chain = "rejected"]
    ELSE [release(reject(S1, t, err), t)
            EXCEPT !.tasks[t].chain = "fulfilled"]

\* the catch-handler answering every error like a timeout
raceCatchErrorResolves(S, t, err) ==
    LET S1 == terminate(S, t) IN
    IF err.kind = "ErrorWorkerExit"
    THEN [S1 EXCEPT !.tasks[t].chain = "rejected"]
    ELSE [release(resolve(S1, t, IF S1.tasks[t].workerData.isApiResource
                                 THEN toHttpApiResponse ELSE toHttpResponse), t)
            EXCEPT !.tasks[t].chain = "fulfilled"]

\* the catch-handler passing ErrorWorkerExit to the caller instead of throwing
raceCatchExitRejects(S, t, err) ==
    LET S1 == terminate(S, t) IN
    IF err.kind = "ErrorRequestTimeout"
    THEN [release(resolve(S1, t, IF S1.tasks[t].workerData.isApiResource
                                 THEN toHttpApiResponse ELSE toHttpResponse), t)
            EXCEPT !.tasks[t].chain = "fulfilled"]
    ELSE [release(reject(S1, t, err), t)
            EXCEPT !.tasks[t].chain = "fulfilled"]

\* the catch-handler with the two timeout forms exchanged
raceCatchSwappedShape(S, t, err) ==
    LET S1 == terminate(S, t) IN
    IF err.kind = "ErrorRequestTimeout"
    THEN [release(resolve(S1, t, IF S1.tasks[t].workerData.isApiResource
                                 THEN toHttpResponse ELSE toHttpApiResponse), t)
            EXCEPT !.tasks[t].chain = "fulfilled"]
    ELSE IF err.kind = "ErrorWorkerExit"
    THEN [S1 EXCEPT !.tasks[t].chain = "rejected"]
    ELSE [release(reject(S1, t, err), t)
            EXCEPT !.tasks[t].chain = "fulfilled"]

\* .catch(err => ...) of the race (lines 77-93)
raceCatch(S, t, err) ==
    LET S1 == terminate(S, t) IN
    IF err.kind = "ErrorRequestTimeout"
    THEN [release(resolve(S1, t, IF S1.tasks[t].workerData.isApiResource
                                 THEN toHttpApiResponse ELSE toHttpResponse), t)
            EXCEPT !.tasks[t].chain = "fulfilled"]
    ELSE IF err.kind = "ErrorWorkerExit"
    THEN [S1 EXCEPT !.tasks[t].chain = "rejected"]
    ELSE [release(reject(S1, t, err), t)
            EXCEPT !.tasks[t].chain = "fulfilled"]

\* Promise.race: the first settlement of workerPromise or timeoutPromise
\* decides it; settlements after that reach no handler
raceResolve(S, t, response) ==
    IF S.tasks[t].race # "pending" THEN S
    ELSE raceThen([S EXCEPT !.tasks[t].race = "message",
                            !.tasks[t].raceValue = response], t, response)

\* a race whose handlers run for every rejection, not only for the first
raceRejectEvery(S, t, err, branch) ==
    raceCatch([S EXCEPT !.tasks[t].race = branch,
                        !.tasks[t].raceValue = err], t, err)

raceReject(S, t, err, branch) ==
    IF S.tasks[t].race # "pending" THEN S
    ELSE raceCatch([S EXCEPT !.tasks[t].race = branch,
                             !.tasks[t].raceValue = err], t, err)

Commit(S) ==
    /\ currWorker' = S.currWorker
    /\ taskQueue' = S.taskQueue
    /\ tasks' = S.tasks
    /\ admitOrder' = S.admitOrder

Init ==
    /\ maxWorkers \in 0..MaxWorkersBound
    /\ currWorker = 0
    /\ taskQueue = <<>>
    /\ tasks = <<>>
    /\ admitOrder = <<>>
    /\ now = 0

\* addTask (lines 30-45) for a request whose isApiRoute is isApi
addTask(isApi) ==
    LET t == Len(tasks) + 1
        S0 == [State EXCEPT !.tasks = Append(@, NewTask(isApi)),
                            !.taskQueue = Append(@, t)]
    IN  runNext(S0)

\* worker.on("message", response => resolveWorker(response))
onMessage(t, code) ==
    raceResolve(State, t, Response(t, tasks[t].workerData.isApiResource, code))

\* worker.on("error", err => rejectWorker(err))
onError(t, name) ==
    raceReject(State, t, Err("Error", name), "error")

\* the exit listener without its test of the exit code
onExitAnyCode(t, exitCode) ==
    LET S0 == [State EXCEPT !.tasks[t].worker = "exited"]
    IN  raceReject(S0, t, Err("ErrorWorkerExit",
            "worker stopped with exit code " \o ToString(exitCode)), "exit")

\* worker.on("exit", exitCode => { if(exitCode !== 0) rejectWorker(...) })
onExit(t, exitCode) ==
    LET S0 == [State EXCEPT !.tasks[t].worker = "exited"]
    IN  IF exitCode # 0
        THEN raceReject(S0, t, Err("ErrorWorkerExit",
                 "worker stopped with exit code " \o ToString(exitCode)), "exit")
        ELSE S0

\* the setTimeout callback: rejectTimeout(new ErrorRequestTimeout(...))
onTimeout(t) ==
    LET S0 == [State EXCEPT !.tasks[t].timer = "fired"]
    IN  raceReject(S0, t, Err("ErrorRequestTimeout", "request timeout"), "timeout")

\* The timers all have the duration timeoutMs and are armed in admission
\* order, so Node runs their callbacks in admission order: the timer of t is
\* due only after the timers armed before it have fired.
TimerDue(t) ==
    /\ tasks[t].timer = "armed"
    /\ \A i, j \in 1..Len(admitOrder) :
           (i < j /\ admitOrder[j] = t) => tasks[admitOrder[i]].timer = "fired"

\* ---- actions: one macrotask of the main thread each ----

\* a request reaches handleRequest, which calls addTask
AddTask ==
    /\ Len(tasks) < MaxTasks
    /\ \E isApi \in BOOLEAN : Commit(addTask(isApi))
    /\ UNCHANGED <<maxWorkers, now>>

\* a running worker posts a message; after the race is decided the event
\* reaches no handler and leaves the state as it is
WorkerMessage ==
    /\ \E t \in 1..Len(tasks), code \in HttpCodes :
         /\ tasks[t].worker = "running"
         /\ Commit(onMessage(t, code))
    /\ UNCHANGED <<maxWorkers, now>>

\* a running worker throws
WorkerError ==
    /\ \E t \in 1..Len(tasks), name \in AppErrors :
         /\ tasks[t].worker = "running"
         /\ Commit(onError(t, name))
    /\ UNCHANGED <<maxWorkers, now>>

\* a running worker ends; a terminated one ends with a non-zero code
WorkerExit ==
    /\ \E t \in 1..Len(tasks), exitCode \in ExitCodes :
         /\ tasks[t].worker = "running"
         /\ (tasks[t].terminateCalls > 0 => exitCode # 0)
         /\ Commit(onExit(t, exitCode))
    /\ UNCHANGED <<maxWorkers, now>>

\* the timer armed at admission comes due, at any moment after it was armed
TimerExpire ==
    /\ \E t \in 1..Len(tasks) :
         /\ TimerDue(t)
         /\ Commit(onTimeout(t))
    /\ UNCHANGED <<maxWorkers, now>>

\* a millisecond passes on the clock Date.now() reads
Tick ==
    /\ now < MaxNow
    /\ now' = now + 1
    /\ UNCHANGED <<maxWorkers, currWorker, taskQueue, tasks, admitOrder>>

Next ==
    \/ AddTask
    \/ WorkerMessage
    \/ WorkerError
    \/ WorkerExit
    \/ TimerExpire

Spec == Init /\ [][Next]_vars

\* setTimeout always runs its callback in the end
FairSpec == Spec /\ WF_vars(TimerExpire)

\* ---- the program when every worker answers in time ----
\* a worker that has posted its result ends, with any exit code
LateWorkerExit ==
    /\ \E t \in 1..Len(tasks), exitCode \in ExitCodes :
         /\ tasks[t].worker = "running"
         /\ tasks[t].race # "pending"
         /\ Commit(onExit(t, exitCode))
    /\ UNCHANGED <<maxWorkers, now>>

\* the timer, never cleared, comes due after the result won the race
LateTimerExpire ==
    /\ \E t \in 1..Len(tasks) :
         /\ TimerDue(t)
         /\ tasks[t].race # "pending"
         /\ Commit(onTimeout(t))
    /\ UNCHANGED <<maxWorkers, now>>

NextMsg ==
    \/ AddTask
    \/ WorkerMessage
    \/ LateWorkerExit
    \/ LateTimerExpire

\* every running worker posts its message in the end
SpecMsg == Init /\ [][NextMsg]_vars /\ WF_vars(WorkerMessage)

\* the same program with the clock of Date.now() followed
NextClock == NextMsg \/ Tick

SpecClock == Init /\ [][NextClock]_vars

\* handleRequest (lines 161-173): what the reactions on the promise of
\* addTask do with the response object res, or with next
handleRequest(t) ==
    LET p == tasks[t].promise IN
    IF p.state = "resolved"
    THEN IF p.value.isApiResource
         THEN [call |-> "json", status |-> p.value.httpCode, body |-> p.value.data]
         ELSE [call |-> "send", status |-> p.value.httpCode, body |-> p.value.data]
    ELSE IF p.state = "rejected"
    THEN [call |-> "next", status |-> 0, body |-> p.value.data]
    ELSE [call |-> "none", status |-> 0, body |-> ""]

\* ---- vocabulary of the properties ----
Tasks == 1..Len(tasks)

Decided(t) == tasks[t].race # "pending"

\* workers spawned by runNext that have neither exited nor been terminated
LiveWorkers == {t \in Tasks : tasks[t].worker = "running" /\ tasks[t].terminateCalls = 0}

\* C1: in every reachable state the slot counter satisfies
\* 0 <= currWorker <= maxWorkers.
SlotCounterBounded == 0 <= currWorker /\ currWorker <= maxWorkers

\* the pool is full, a task waits, and a slot has already been released once
SlotCounterAtMax ==
    /\ maxWorkers >= 1
    /\ currWorker = maxWorkers
    /\ Len(taskQueue) >= 1
    /\ \E t \in Tasks : tasks[t].decs = 1

\* C2: the number of workers spawned and not yet exited or terminated never
\* exceeds maxWorkers.
RunningUnitsBounded == Cardinality(LiveWorkers) <= maxWorkers

\* C3: whichever branch decides a task's race, currWorker is decremented
\* exactly once for it and runNext is re-invoked exactly once afterwards.
ReleasedOncePerRace ==
    \A t \in Tasks : Decided(t) => tasks[t].decs = 1 /\ tasks[t].reruns = 1

\* C4: tasks are admitted in exactly the order of the addTask calls: the
\* admitted ids are 1, 2, ... and the queue holds the rest, in call order.
AdmittedInSubmissionOrder ==
    /\ \A i \in 1..Len(admitOrder) : admitOrder[i] = i
    /\ Len(taskQueue) = Len(tasks) - Len(admitOrder)
    /\ \A i \in 1..Len(taskQueue) : taskQueue[i] = Len(admitOrder) + i

\* three tasks admitted, the second finished while the first still runs
OutOfOrderCompletion ==
    /\ Len(admitOrder) >= 3
    /\ Decided(2)
    /\ ~Decided(1)

\* C5: every admitted task whose race has ended, by message, timeout,
\* worker error or abnormal exit, has its promise settled, by one call.
OutcomeProducedOnce ==
    \A t \in Tasks :
        Decided(t) => tasks[t].promise.state # "pending" /\ tasks[t].settleCalls = 1

\* the outcome the catch-handler builds for a timed-out task
TimeoutOutcome(t) ==
    [kind |-> "timeout", from |-> 0,
     isApiResource |-> tasks[t].workerData.isApiResource, httpCode |-> 408,
     data |-> IF tasks[t].workerData.isApiResource THEN "json" ELSE "text"]

\* C6: when the timer of a task comes due while its race is undecided (no
\* message, no error, no non-zero exit so far), that step terminates the
\* worker and resolves the caller's promise with the timeout outcome; a race
\* the timeout won always shows that result.
TimeoutResolvesCaller ==
    /\ [](\A t \in Tasks :
            tasks[t].race = "timeout" =>
                /\ tasks[t].terminateCalls = 1
                /\ tasks[t].promise.state = "resolved"
                /\ tasks[t].promise.value = TimeoutOutcome(t))
    /\ [][\A t \in Tasks :
            (tasks[t].race = "pending" /\ tasks[t].timer = "armed"
                                       /\ tasks'[t].timer = "fired") =>
                /\ tasks'[t].race = "timeout"
                /\ tasks'[t].terminateCalls = 1
                /\ tasks'[t].promise.state = "resolved"
                /\ tasks'[t].promise.value.kind = "timeout"]_vars

\* a task has timed out, its worker having ended quietly or still running
TimedOutTask ==
    \E t \in Tasks :
        /\ tasks[t].race = "timeout"
        /\ tasks[t].timer = "fired"
        /\ tasks[t].promise.state = "resolved"

\* C7: when a worker's error event decides the race, the caller's promise is
\* rejected with that error, the slot is released once, and the head of the
\* queue, if any, is admitted in the same step.
ErrorRejectsCaller ==
    /\ [](\A t \in Tasks :
            tasks[t].race = "error" =>
                /\ tasks[t].promise = [state |-> "rejected", value |-> tasks[t].raceValue]
                /\ tasks[t].raceValue.kind = "Error"
                /\ tasks[t].decs = 1
                /\ tasks[t].reruns = 1)
    /\ [][\A t \in Tasks :
            (tasks[t].race = "pending" /\ tasks'[t].race = "error") =>
                /\ 0 <= currWorker' /\ currWorker' <= maxWorkers
                /\ IF taskQueue = <<>>
                   THEN currWorker' = currWorker - 1 /\ taskQueue' = <<>>
                   ELSE /\ currWorker' = currWorker
                        /\ taskQueue' = Tail(taskQueue)
                        /\ tasks'[Head(taskQueue)].status = "admitted"
                        /\ tasks'[Head(taskQueue)].worker = "running"]_vars

\* one slot; task 2 was queued when task 3 arrived, task 1 failed with an
\* application error and task 2 has been admitted
ErrorThenNextAdmitted ==
    /\ maxWorkers = 1
    /\ Len(tasks) = 3
    /\ tasks[3].workerData.queueId[1] = 1
    /\ tasks[1].race = "error"
    /\ tasks[1].promise.state = "rejected"
    /\ tasks[2].status = "admitted"

\* C8: when a non-zero exit decides the race, the handler re-raises
\* ErrorWorkerExit and the caller's promise is never settled afterwards, also
\* not when the timer expires later.
ExitLeavesCallerPending ==
    /\ [](\A t \in Tasks :
            tasks[t].race = "exit" =>
                /\ tasks[t].chain = "rejected"
                /\ tasks[t].raceValue.kind = "ErrorWorkerExit"
                /\ tasks[t].promise.state = "pending"
                /\ tasks[t].settleCalls = 0)
    /\ [][\A t \in Tasks :
            tasks[t].race = "exit" =>
                tasks'[t].race = "exit" /\ tasks'[t].promise = tasks[t].promise]_vars

\* a worker exited abnormally and the timer of its task has expired since
ExitThenTimerExpired ==
    \E t \in Tasks :
        /\ tasks[t].race = "exit"
        /\ tasks[t].timer = "fired"
        /\ tasks[t].promise.state = "pending"

\* C9: with maxWorkers >= 1 every submitted task is eventually admitted,
\* whatever the outcomes of the tasks admitted before it.
EverySubmittedTaskAdmitted ==
    (maxWorkers >= 1) =>
        \A t \in 1..MaxTasks :
            [](Len(tasks) >= t => <>(Len(tasks) >= t /\ tasks[t].status = "admitted"))

\* C10: with maxWorkers >= 1 and every worker answering in time, every
\* submitted task is eventually resolved with the result of its own worker; a
\* task submitted while currWorker = maxWorkers is queued, and a queued task
\* is admitted only in a step in which a running task releases its slot.
AllResolveWithOwnResult ==
    /\ (maxWorkers >= 1) =>
           \A t \in 1..MaxTasks :
               [](Len(tasks) >= t =>
                    <>(/\ Len(tasks) >= t
                       /\ tasks[t].promise.state = "resolved"
                       /\ tasks[t].promise.value.kind = "result"
                       /\ tasks[t].promise.value.from = t))
    /\ [][(Len(tasks') = Len(tasks) + 1 /\ currWorker = maxWorkers) =>
                tasks'[Len(tasks')].status = "queued"]_vars
    /\ [][\A t \in Tasks :
            (tasks[t].status = "queued" /\ tasks'[t].status = "admitted") =>
                \E u \in Tasks : tasks[u].decs = 0 /\ tasks'[u].decs = 1]_vars

\* one slot, three tasks, the third submitted behind a queued one, and all
\* three resolved with their own results
ThreeTasksResolved ==
    /\ maxWorkers = 1
    /\ Len(tasks) = 3
    /\ tasks[3].workerData.queueId[1] = 1
    /\ \A t \in 1..3 :
           /\ tasks[t].promise.state = "resolved"
           /\ tasks[t].promise.value.kind = "result"
           /\ tasks[t].promise.value.from = t
\* the number of places of the sequence q that hold t
Count(q, t) == Cardinality({i \in 1..Len(q) : q[i] = t})

\* C11: with maxWorkers = 0 no task is ever admitted: currWorker stays 0, no
\* worker is spawned, every submitted task stays in taskQueue and no promise
\* is settled.
ZeroCapacityStarves ==
    (maxWorkers = 0) =>
        /\ currWorker = 0
        /\ admitOrder = <<>>
        /\ Len(taskQueue) = Len(tasks)
        /\ \A t \in Tasks :
               /\ Count(taskQueue, t) = 1
               /\ tasks[t].status = "queued"
               /\ tasks[t].worker = "unspawned"
               /\ tasks[t].timer = "unset"
               /\ tasks[t].promise.state = "pending"
               /\ tasks[t].settleCalls = 0

\* no capacity and two tasks submitted
ZeroCapacityTwoQueued ==
    /\ maxWorkers = 0
    /\ Len(tasks) >= 2
    /\ Len(taskQueue) >= 2

\* C12: the shape of a delivered outcome follows isApiResource alone: a
\* timed-out task is resolved with the API form when its flag is set and with
\* the page form otherwise, and handleRequest answers a resolved outcome with
\* json(data) when the outcome's isApiResource is set and with send(data)
\* otherwise, under the outcome's httpCode in both cases.
OutcomeShapeByFlag ==
    \A t \in Tasks :
        /\ tasks[t].race = "timeout" =>
              /\ tasks[t].workerData.isApiResource =>
                    tasks[t].promise.value = toHttpApiResponse
              /\ ~tasks[t].workerData.isApiResource =>
                    tasks[t].promise.value = toHttpResponse
              /\ handleRequest(t).call =
                    (IF tasks[t].workerData.isApiResource THEN "json" ELSE "send")
        /\ tasks[t].promise.state = "resolved" =>
              /\ handleRequest(t).call \in {"json", "send"}
              /\ (handleRequest(t).call = "json") = tasks[t].promise.value.isApiResource
              /\ handleRequest(t).status = tasks[t].promise.value.httpCode
              /\ handleRequest(t).body = tasks[t].promise.value.data

\* an API task and a page task have both timed out and are answered with
\* the same status through json and through send
BothShapesDelivered ==
    \E t, u \in Tasks :
        /\ tasks[t].workerData.isApiResource
        /\ ~tasks[u].workerData.isApiResource
        /\ tasks[t].race = "timeout"
        /\ tasks[u].race = "timeout"
        /\ handleRequest(t).call = "json"
        /\ handleRequest(u).call = "send"
        /\ handleRequest(t).status = handleRequest(u).status

\* C13: every submitted task is in the queue exactly once until it is
\* admitted and never again afterwards; it is admitted at most once and gets
\* its worker then; so it is queued, running or finished, and only one of
\* these.
QueueEntryRemovedOnce ==
    \A t \in Tasks :
        /\ Count(taskQueue, t) + Count(admitOrder, t) = 1
        /\ (Count(taskQueue, t) = 1) = (tasks[t].status = "queued")
        /\ (tasks[t].status = "queued") = (tasks[t].worker = "unspawned")
        /\ tasks[t].status = "queued" => ~Decided(t)

\* one task waits, one runs and one has finished
QueuedRunningFinished ==
    \E t, u, v \in Tasks :
        /\ tasks[t].status = "queued"
        /\ tasks[u].status = "admitted" /\ ~Decided(u)
        /\ tasks[v].status = "admitted" /\ Decided(v)
\* C14: any two distinct addTask submissions receive different queueId
\* values, also within one clock millisecond with the queue at the same
\* length.
QueueIdsUnique ==
    \A t, u \in Tasks :
        t # u => tasks[t].workerData.queueId # tasks[u].workerData.queueId

\* C15 as stated: worker.terminate() is invoked on a worker only when its
\* timer won the race.
OnlyTimeoutTerminates ==
    \A t \in Tasks : tasks[t].terminateCalls > 0 => tasks[t].race = "timeout"

\* C15 as amended: worker.terminate() is invoked once on a worker when its
\* race ends in the catch-handler (timeout, worker error, abnormal exit) and
\* never when the result message wins or while the race is undecided.
TerminateInCatchOnly ==
    \A t \in Tasks :
        tasks[t].terminateCalls =
            (IF tasks[t].race \in {"timeout", "error", "exit"} THEN 1 ELSE 0)

\* one worker answered and was left alone, another threw and was terminated
AnsweredKeptErroredTerminated ==
    \E t, u \in Tasks :
        /\ tasks[t].race = "message" /\ tasks[t].terminateCalls = 0
        /\ tasks[u].race = "error" /\ tasks[u].terminateCalls = 1

\* C16: a race is decided once; an event of a task whose race is decided (a
\* late message, error or exit, the exit after terminate, the timer that was
\* never cleared) changes neither its outcome, nor currWorker, nor
\* taskQueue, nor any other task.
RaceDecidedOnce ==
    [][\A t \in Tasks :
        Decided(t) =>
            /\ tasks'[t].race = tasks[t].race
            /\ tasks'[t].raceValue = tasks[t].raceValue
            /\ tasks'[t].promise = tasks[t].promise
            /\ tasks'[t].settleCalls = tasks[t].settleCalls
            /\ tasks'[t].terminateCalls = tasks[t].terminateCalls
            /\ tasks'[t].chain = tasks[t].chain
            /\ tasks'[t].decs = tasks[t].decs
            /\ tasks'[t].reruns = tasks[t].reruns
            /\ (tasks'[t] # tasks[t]) =>
                  /\ currWorker' = currWorker
                  /\ taskQueue' = taskQueue
                  /\ admitOrder' = admitOrder
                  /\ Len(tasks') = Len(tasks)
                  /\ \A u \in Tasks \ {t} : tasks'[u] = tasks[u]]_vars

\* the worker of a timed-out task has exited since, and the timer of an
\* answered task has expired since
LateEventsArrived ==
    \E t, u \in Tasks :
        /\ tasks[t].race = "timeout" /\ tasks[t].worker = "exited"
        /\ tasks[u].race = "message" /\ tasks[u].timer = "fired"

\* C17: between event handlers a non-empty taskQueue implies
\* currWorker = maxWorkers.
WorkConserving == (taskQueue # <<>>) => (currWorker = maxWorkers)

\* a task waits although a slot was released and re-used before
QueueBehindReusedSlot ==
    /\ maxWorkers >= 1
    /\ Len(taskQueue) >= 1
    /\ Len(admitOrder) > maxWorkers
    /\ \E t \in Tasks : Decided(t) /\ tasks[t].decs = 1

\* C18: a task still in taskQueue has no timer and an unsettled promise,
\* however long it has waited.
QueuedTaskUntouched ==
    \A t \in Tasks :
        tasks[t].status = "queued" =>
            /\ tasks[t].timer = "unset"
            /\ tasks[t].promise.state = "pending"
            /\ tasks[t].settleCalls = 0
            /\ ~Decided(t)

\* task 3 arrived behind the queued task 2; task 2 was admitted after that
\* and its timer has expired, and task 3 still waits
QueuedPastTimeout ==
    /\ Len(tasks) = 3
    /\ tasks[3].workerData.queueId[1] = 1
    /\ tasks[3].status = "queued"
    /\ tasks[2].timer = "fired"

\* C19: an exit with code 0 of a worker that has sent no message and no
\* error settles nothing and releases nothing; the task keeps its slot until
\* its timer expires, and is then resolved with the timeout outcome and its
\* slot released.
QuietExitKeepsSlot ==
    /\ [](\A t \in Tasks :
            (tasks[t].worker = "exited" /\ ~Decided(t)) =>
                /\ tasks[t].timer = "armed"
                /\ tasks[t].promise.state = "pending"
                /\ tasks[t].settleCalls = 0
                /\ tasks[t].decs = 0)
    /\ [][\A t \in Tasks :
            (tasks[t].worker = "running" /\ ~Decided(t) /\ State' = onExit(t, 0)) =>
                /\ ~Decided(t)'
                /\ tasks'[t].promise = tasks[t].promise
                /\ currWorker' = currWorker
                /\ taskQueue' = taskQueue]_vars
    /\ [][\A t \in Tasks :
            (tasks[t].worker = "exited" /\ ~Decided(t) /\ tasks'[t].timer = "fired") =>
                /\ tasks'[t].race = "timeout"
                /\ tasks'[t].promise = [state |-> "resolved", value |-> TimeoutOutcome(t)]
                /\ tasks'[t].decs = 1
                /\ currWorker' = currWorker - 1 + (IF taskQueue = <<>> THEN 0 ELSE 1)]_vars

\* a worker has exited quietly and its task still holds the slot
QuietExitPending ==
    \E t \in Tasks :
        /\ tasks[t].worker = "exited"
        /\ ~Decided(t)
        /\ tasks[t].timer = "armed"
        /\ currWorker >= 1
====
